---------------------------- MODULE Spec2Model ----------------------------
(***************************************************************************)
(* babel-plugin-transform-minify-graphql: the printer (printDocASTReducer  *)
(* with join / block / wrap, run by graphql's visit as a leave-visitor),   *)
(* the constant resolver getStringLiteral and the TaggedTemplateExpression *)
(* handler.                                                                *)
(*                                                                         *)
(* Text is a string; TLC treats a string as the sequence of its            *)
(* characters (Len, \o, SubSeq, Head and Tail apply).                      *)
(***************************************************************************)
EXTENDS Integers, Sequences, FiniteSets, TLC

(***************************************************************************)
(* JavaScript values seen by the reducer: a string, null/undefined, or an  *)
(* object (an AST node no rule replaced).  s is what String(v) gives.      *)
(***************************************************************************)
Str(s) == [t |-> "string", s |-> s]
Absent == [t |-> "null", s |-> "null"]
Object == [t |-> "object", s |-> "[object Object]"]

Truthy(v) == v.t = "object" \/ (v.t = "string" /\ v.s # "")
StringOf(v) == v.s

\* A required single child, and an optional single child, of a visited node
\* (child fields are sequences: a single child is a sequence of length <= 1).
One(xs) == IF Len(xs) = 0 THEN Absent ELSE xs[1]

RECURSIVE JoinTruthy(_, _, _)
JoinTruthy(items, separator, first) ==
  IF Len(items) = 0 THEN ""
  ELSE IF ~Truthy(Head(items)) THEN JoinTruthy(Tail(items), separator, first)
  ELSE (IF first THEN "" ELSE separator) \o StringOf(Head(items))
         \o JoinTruthy(Tail(items), separator, FALSE)

\* maybeArray ? maybeArray.filter(x => x).join(separator || '') : ''
\* (a null array and an empty one are both the empty sequence: both give '').
join(maybeArray, separator) == JoinTruthy(maybeArray, separator, TRUE)

\* array && array.length !== 0 ? `{${join(array, ' ')}}` : '{}'
block(array) ==
  IF Len(array) # 0 THEN "{" \o join(array, " ") \o "}" ELSE "{}"

\* maybeString ? start + maybeString + (end || '') : ''
wrap(start, maybeString, end) ==
  IF Truthy(maybeString) THEN start \o StringOf(maybeString) \o end ELSE ""

(***************************************************************************)
(* JSON.stringify of a string: quoted, with the quote, the backslash and   *)
(* the control characters escaped; of a boolean: true / false.             *)
(***************************************************************************)
RECURSIVE JsonEscape(_)
JsonEscape(s) ==
  IF Len(s) = 0 THEN ""
  ELSE LET c == SubSeq(s, 1, 1) IN
       (CASE c = "\"" -> "\\\""
          [] c = "\\" -> "\\\\"
          [] c = "\n" -> "\\n"
          [] c = "\t" -> "\\t"
          [] OTHER -> c) \o JsonEscape(Tail(s))

JSONstringify(value) == "\"" \o JsonEscape(value) \o "\""

\* A boolean is held as "true" or "false" (fields of one name hold values
\* of one sort in every node).
JSONstringifyBoolean(value) == IF value = "true" THEN "true" ELSE "false"

(***************************************************************************)
(* printDocASTReducer.  Each rule takes the node as visit hands it over on *)
(* leaving: every child already replaced by what its own rule returned.    *)
(* A child field is a sequence of values; scalar fields (value, operation) *)
(* are as the parser left them.                                            *)
(***************************************************************************)
Name(node) == Str(node.value)

Variable(node) == Str("$" \o StringOf(One(node.name)))

Document(node) == Str(join(node.definitions, " ") \o "\n")

\* OperationDefinition without the test that the operation is a query.
OperationDefinitionAnyOperation(node) ==
  LET op == node.operation
      name == One(node.name)
      varDefs == wrap("(", Str(join(node.variableDefinitions, ",")), ")")
      directives == join(node.directives, " ")
      selectionSet == One(node.selectionSet)
  IN IF ~Truthy(name) /\ directives = "" /\ varDefs = ""
     THEN selectionSet
     ELSE Str(join(<<Str(op), Str(join(<<name, Str(varDefs)>>, "")),
                     Str(directives), selectionSet>>, " "))

OperationDefinition(node) ==
  LET op == node.operation
      name == One(node.name)
      varDefs == wrap("(", Str(join(node.variableDefinitions, ",")), ")")
      directives == join(node.directives, " ")
      selectionSet == One(node.selectionSet)
  IN IF ~Truthy(name) /\ directives = "" /\ varDefs = "" /\ op = "query"
     THEN selectionSet
     ELSE Str(join(<<Str(op), Str(join(<<name, Str(varDefs)>>, "")),
                     Str(directives), selectionSet>>, " "))

VariableDefinition(node) ==
  Str(StringOf(One(node.variable)) \o ":" \o StringOf(One(node.type))
        \o wrap("=", One(node.defaultValue), ""))

\* SelectionSet with a space after each comma.
SelectionSetSpaced(node) == Str(wrap("{", Str(join(node.selections, ", ")), "}"))

SelectionSet(node) == Str(wrap("{", Str(join(node.selections, ",")), "}"))

Field(node) ==
  Str(join(<<Str(wrap("", One(node.alias), ":") \o StringOf(One(node.name))
                   \o wrap("(", Str(join(node.arguments, ",")), ")")),
             Str(join(node.directives, " ")),
             One(node.selectionSet)>>, ""))

Argument(node) ==
  Str(StringOf(One(node.name)) \o ":" \o StringOf(One(node.value)))

FragmentSpread(node) ==
  Str("..." \o StringOf(One(node.name))
        \o wrap(" ", Str(join(node.directives, " ")), ""))

\* InlineFragment with no space after on.
InlineFragmentNoSpace(node) ==
  Str(join(<<Str("..."),
             Str(wrap("on", One(node.typeCondition), "")),
             Str(join(node.directives, " ")),
             One(node.selectionSet)>>, ""))

InlineFragment(node) ==
  Str(join(<<Str("..."),
             Str(wrap("on ", One(node.typeCondition), "")),
             Str(join(node.directives, " ")),
             One(node.selectionSet)>>, ""))

FragmentDefinition(node) ==
  Str("fragment " \o StringOf(One(node.name)) \o " on "
        \o StringOf(One(node.typeCondition)) \o " "
        \o wrap("", Str(join(node.directives, " ")), " ")
        \o StringOf(One(node.selectionSet)))

IntValue(node) == Str(node.value)
FloatValue(node) == Str(node.value)
StringValue(node) == Str(JSONstringify(node.value))
BooleanValue(node) == Str(JSONstringifyBoolean(node.value))
NullValue(node) == Str("null")
EnumValue(node) == Str(node.value)
ListValue(node) == Str("[" \o join(node.values, ", ") \o "]")
ObjectValue(node) == Str("{" \o join(node.fields, ", ") \o "}")
ObjectField(node) ==
  Str(StringOf(One(node.name)) \o ": " \o StringOf(One(node.value)))

Directive(node) ==
  Str("@" \o StringOf(One(node.name))
        \o wrap("(", Str(join(node.arguments, ", ")), ")"))

NamedType(node) == One(node.name)
ListType(node) == Str("[" \o StringOf(One(node.type)) \o "]")
NonNullType(node) == Str(StringOf(One(node.type)) \o "!")

SchemaDefinition(node) ==
  Str(join(<<Str("schema"), Str(join(node.directives, " ")),
             Str(block(node.operationTypes))>>, " "))

OperationTypeDefinition(node) ==
  Str(node.operation \o ": " \o StringOf(One(node.type)))

ScalarTypeDefinition(node) ==
  Str(join(<<Str("scalar"), One(node.name),
             Str(join(node.directives, " "))>>, " "))

ObjectTypeDefinition(node) ==
  Str(join(<<Str("type"), One(node.name),
             Str(wrap("implements ", Str(join(node.interfaces, ", ")), "")),
             Str(join(node.directives, " ")),
             Str(block(node.fields))>>, " "))

FieldDefinition(node) ==
  Str(StringOf(One(node.name))
        \o wrap("(", Str(join(node.arguments, ", ")), ")")
        \o ": " \o StringOf(One(node.type))
        \o wrap(" ", Str(join(node.directives, " ")), ""))

InputValueDefinition(node) ==
  Str(join(<<Str(StringOf(One(node.name)) \o ": " \o StringOf(One(node.type))),
             Str(wrap("= ", One(node.defaultValue), "")),
             Str(join(node.directives, " "))>>, " "))

InterfaceTypeDefinition(node) ==
  Str(join(<<Str("interface"), One(node.name),
             Str(join(node.directives, " ")),
             Str(block(node.fields))>>, " "))

UnionTypeDefinition(node) ==
  Str(join(<<Str("union"), One(node.name),
             Str(join(node.directives, " ")),
             Str("= " \o join(node.types, " | "))>>, " "))

EnumTypeDefinition(node) ==
  Str(join(<<Str("enum"), One(node.name),
             Str(join(node.directives, " ")),
             Str(block(node.values))>>, " "))

EnumValueDefinition(node) ==
  Str(join(<<One(node.name), Str(join(node.directives, " "))>>, " "))

InputObjectTypeDefinition(node) ==
  Str(join(<<Str("input"), One(node.name),
             Str(join(node.directives, " ")),
             Str(block(node.fields))>>, " "))

TypeExtensionDefinition(node) ==
  Str("extend " \o StringOf(One(node.definition)))

DirectiveDefinition(node) ==
  Str("directive @" \o StringOf(One(node.name))
        \o wrap("(", Str(join(node.arguments, ", ")), ")")
        \o " on " \o join(node.locations, " | "))

\* The kinds printDocASTReducer has a rule for.
RuleKinds ==
  {"Name", "Variable", "Document", "OperationDefinition",
   "VariableDefinition", "SelectionSet", "Field", "Argument",
   "FragmentSpread", "InlineFragment", "FragmentDefinition", "IntValue",
   "FloatValue", "StringValue", "BooleanValue", "NullValue", "EnumValue",
   "ListValue", "ObjectValue", "ObjectField", "Directive", "NamedType",
   "ListType", "NonNullType", "SchemaDefinition",
   "OperationTypeDefinition", "ScalarTypeDefinition",
   "ObjectTypeDefinition", "FieldDefinition", "InputValueDefinition",
   "InterfaceTypeDefinition", "UnionTypeDefinition", "EnumTypeDefinition",
   "EnumValueDefinition", "InputObjectTypeDefinition",
   "TypeExtensionDefinition", "DirectiveDefinition"}

\* printDocASTReducer[kind](node)
printDocASTReducer(node) ==
  CASE node.kind = "Name" -> Name(node)
    [] node.kind = "Variable" -> Variable(node)
    [] node.kind = "Document" -> Document(node)
    [] node.kind = "OperationDefinition" -> OperationDefinition(node)
    [] node.kind = "VariableDefinition" -> VariableDefinition(node)
    [] node.kind = "SelectionSet" -> SelectionSet(node)
    [] node.kind = "Field" -> Field(node)
    [] node.kind = "Argument" -> Argument(node)
    [] node.kind = "FragmentSpread" -> FragmentSpread(node)
    [] node.kind = "InlineFragment" -> InlineFragment(node)
    [] node.kind = "FragmentDefinition" -> FragmentDefinition(node)
    [] node.kind = "IntValue" -> IntValue(node)
    [] node.kind = "FloatValue" -> FloatValue(node)
    [] node.kind = "StringValue" -> StringValue(node)
    [] node.kind = "BooleanValue" -> BooleanValue(node)
    [] node.kind = "NullValue" -> NullValue(node)
    [] node.kind = "EnumValue" -> EnumValue(node)
    [] node.kind = "ListValue" -> ListValue(node)
    [] node.kind = "ObjectValue" -> ObjectValue(node)
    [] node.kind = "ObjectField" -> ObjectField(node)
    [] node.kind = "Directive" -> Directive(node)
    [] node.kind = "NamedType" -> NamedType(node)
    [] node.kind = "ListType" -> ListType(node)
    [] node.kind = "NonNullType" -> NonNullType(node)
    [] node.kind = "SchemaDefinition" -> SchemaDefinition(node)
    [] node.kind = "OperationTypeDefinition" -> OperationTypeDefinition(node)
    [] node.kind = "ScalarTypeDefinition" -> ScalarTypeDefinition(node)
    [] node.kind = "ObjectTypeDefinition" -> ObjectTypeDefinition(node)
    [] node.kind = "FieldDefinition" -> FieldDefinition(node)
    [] node.kind = "InputValueDefinition" -> InputValueDefinition(node)
    [] node.kind = "InterfaceTypeDefinition" -> InterfaceTypeDefinition(node)
    [] node.kind = "UnionTypeDefinition" -> UnionTypeDefinition(node)
    [] node.kind = "EnumTypeDefinition" -> EnumTypeDefinition(node)
    [] node.kind = "EnumValueDefinition" -> EnumValueDefinition(node)
    [] node.kind = "InputObjectTypeDefinition" ->
         InputObjectTypeDefinition(node)
    [] node.kind = "TypeExtensionDefinition" -> TypeExtensionDefinition(node)
    [] node.kind = "DirectiveDefinition" -> DirectiveDefinition(node)

\* The fields of a node that hold child nodes (graphql's visitor keys).
ScalarKeys == {"kind", "value", "operation"}
ChildKeys(node) ==
  IF node.kind \in {"Argument", "ObjectField"}
  THEN DOMAIN node \ {"kind"}
  ELSE DOMAIN node \ ScalarKeys

(***************************************************************************)
(* visit(ast, { leave: printDocASTReducer }): children first, then the     *)
(* node's own rule on the node with its children replaced.  A node whose   *)
(* kind has no rule has no visit function: visit leaves it as it is, an    *)
(* object, and raises nothing.                                             *)
(***************************************************************************)
RECURSIVE visit(_)
visit(node) ==
  IF node.kind \notin RuleKinds THEN Object
  ELSE printDocASTReducer(
         [k \in DOMAIN node |->
            IF k \in ChildKeys(node)
            THEN [i \in 1..Len(node[k]) |-> visit(node[k][i])]
            ELSE node[k]])

print(ast) == visit(ast)

(***************************************************************************)
(* parse: graphql's lexer and recursive-descent parser, for executable     *)
(* documents (operations, fragments, selections, arguments, directives,    *)
(* values, type references).  In the tree every child field is a sequence: *)
(* a list of nodes, or a single child as a sequence of length <= 1 (empty: *)
(* the child is absent).  Locations are left out.                          *)
(***************************************************************************)
Whitespace == {" ", "\t", "\n", "\r", ","}
LineEnd == {"\n", "\r"}
Digits == {"0", "1", "2", "3", "4", "5", "6", "7", "8", "9"}
NameStart ==
  {"_", "a", "b", "c", "d", "e", "f", "g", "h", "i", "j", "k", "l", "m",
   "n", "o", "p", "q", "r", "s", "t", "u", "v", "w", "x", "y", "z",
   "A", "B", "C", "D", "E", "F", "G", "H", "I", "J", "K", "L", "M",
   "N", "O", "P", "Q", "R", "S", "T", "U", "V", "W", "X", "Y", "Z"}
NameChars == NameStart \cup Digits
Punctuators == {"!", "$", "(", ")", ":", "=", "@", "[", "]", "{", "|", "}"}

Char(s, i) == IF 1 <= i /\ i <= Len(s) THEN SubSeq(s, i, i) ELSE ""

\* The first position from i on whose character is not in class.
RECURSIVE RunEnd(_, _, _)
RunEnd(s, i, class) ==
  IF Char(s, i) \in class THEN RunEnd(s, i + 1, class) ELSE i

\* The first position from i on that ends the line (or the text).
RECURSIVE LineEndFrom(_, _)
LineEndFrom(s, i) ==
  IF i > Len(s) \/ Char(s, i) \in LineEnd THEN i ELSE LineEndFrom(s, i + 1)

Tok(kind, value) == [kind |-> kind, value |-> value]
ErrorTok == Tok("<Error>", "")
EOFTok == Tok("<EOF>", "")

\* readNumber: -?(0|[1-9][0-9]*)(\.[0-9]+)?([eE][+-]?[0-9]+)?
\* The token and the position after it; an error token on a malformed number.
readNumber(s, i) ==
  LET i0 == IF Char(s, i) = "-" THEN i + 1 ELSE i
      i1 == IF Char(s, i0) = "0" THEN i0 + 1 ELSE RunEnd(s, i0, Digits)
      intBad == Char(s, i0) \notin Digits
                  \/ (Char(s, i0) = "0" /\ Char(s, i1) \in Digits)
      hasFrac == Char(s, i1) = "."
      i2 == IF hasFrac THEN RunEnd(s, i1 + 1, Digits) ELSE i1
      fracBad == hasFrac /\ Char(s, i1 + 1) \notin Digits
      hasExp == Char(s, i2) \in {"e", "E"}
      i3 == IF hasExp /\ Char(s, i2 + 1) \in {"+", "-"} THEN i2 + 2 ELSE i2 + 1
      i4 == IF hasExp THEN RunEnd(s, i3, Digits) ELSE i2
      expBad == hasExp /\ Char(s, i3) \notin Digits
  IN IF intBad \/ fracBad \/ expBad THEN [tok |-> ErrorTok, end |-> i]
     ELSE [tok |-> Tok(IF hasFrac \/ hasExp THEN "Float" ELSE "Int",
                       SubSeq(s, i, i4 - 1)),
           end |-> i4]

\* readString from the character after the opening quote: the value with
\* its escapes read.  (Of the escapes, \" \\ \/ \n \r \t are modelled.)
RECURSIVE readString(_, _, _)
readString(s, i, value) ==
  LET c == Char(s, i)
      e == Char(s, i + 1)
  IN IF i > Len(s) \/ c \in LineEnd THEN [tok |-> ErrorTok, end |-> i]
     ELSE IF c = "\"" THEN [tok |-> Tok("String", value), end |-> i + 1]
     ELSE IF c = "\\"
       THEN IF e \in {"\"", "\\", "/"} THEN readString(s, i + 2, value \o e)
            ELSE IF e = "n" THEN readString(s, i + 2, value \o "\n")
            ELSE IF e = "r" THEN readString(s, i + 2, value \o "\r")
            ELSE IF e = "t" THEN readString(s, i + 2, value \o "\t")
            ELSE [tok |-> ErrorTok, end |-> i]
     ELSE readString(s, i + 1, value \o c)

\* The first position from i on that is neither whitespace nor in a
\* comment.
RECURSIVE skipIgnored(_, _)
skipIgnored(s, i) ==
  LET j == RunEnd(s, i, Whitespace)
  IN IF Char(s, j) = "#" THEN skipIgnored(s, LineEndFrom(s, j)) ELSE j

\* readToken: the token at or after position i and the position after it;
\* <EOF> at the end of the text, <Error> where the lexer raises a syntax
\* error.
readToken(s, i) ==
  LET j == skipIgnored(s, i)
      c == Char(s, j)
  IN
  IF j > Len(s) THEN [tok |-> EOFTok, end |-> j]
  ELSE IF c \in Punctuators THEN [tok |-> Tok(c, ""), end |-> j + 1]
  ELSE IF c = "."
    THEN IF Char(s, j + 1) = "." /\ Char(s, j + 2) = "."
         THEN [tok |-> Tok("...", ""), end |-> j + 3]
         ELSE [tok |-> ErrorTok, end |-> j]
  ELSE IF c \in NameStart
    THEN LET k == RunEnd(s, j, NameChars)
         IN [tok |-> Tok("Name", SubSeq(s, j, k - 1)), end |-> k]
  ELSE IF c \in Digits \cup {"-"} THEN readNumber(s, j)
  ELSE IF c = "\"" THEN readString(s, j + 1, "")
  ELSE [tok |-> ErrorTok, end |-> j]

\* The tokens of s from position i, up to and with <EOF> or <Error>.
RECURSIVE Lex(_, _)
Lex(s, i) ==
  LET t == readToken(s, i)
  IN IF t.tok.kind \in {"<EOF>", "<Error>"} THEN <<t.tok>>
     ELSE <<t.tok>> \o Lex(s, t.end)

\* A parse step's result: the nodes read and the position of the next token.
OK(nodes, pos) == [ok |-> TRUE, nodes |-> nodes, pos |-> pos]
Fail == [ok |-> FALSE, nodes |-> <<>>, pos |-> 1]

peek(ts, p, kind) == ts[p].kind = kind
peekKeyword(ts, p, value) == ts[p].kind = "Name" /\ ts[p].value = value

OperationTypes == {"query", "mutation", "subscription"}

RECURSIVE parseRule(_, _, _), parseUntil(_, _, _, _, _),
          parseWhile(_, _, _, _, _)

\* Items up to the closing token, which is skipped.
parseUntil(ts, p, close, what, nodes) ==
  IF peek(ts, p, close) THEN OK(nodes, p + 1)
  ELSE LET r == parseRule(what, ts, p)
       IN IF r.ok THEN parseUntil(ts, r.pos, close, what, nodes \o r.nodes)
          ELSE Fail

\* Items for as long as the opening token of one is next.
parseWhile(ts, p, open, what, nodes) ==
  IF peek(ts, p, open)
  THEN LET r == parseRule(what, ts, p)
       IN IF r.ok THEN parseWhile(ts, r.pos, open, what, nodes \o r.nodes)
          ELSE Fail
  ELSE OK(nodes, p)

\* any: open, zero or more items, close.  many: open, one or more, close.
any(ts, p, open, what, close) ==
  IF peek(ts, p, open) THEN parseUntil(ts, p + 1, close, what, <<>>)
  ELSE Fail

many(ts, p, open, what, close) ==
  LET r == parseRule(what, ts, p + 1)
  IN IF peek(ts, p, open) /\ r.ok
     THEN parseUntil(ts, r.pos, close, what, r.nodes)
     ELSE Fail

(***************************************************************************)
(* The parser's functions, parseName to parseDefinition, as the rules of   *)
(* one recursive operator: parseRule("Field", ts, p) is parseField at      *)
(* token p.  A Const rule is the rule with isConst true.                   *)
(***************************************************************************)
parseRule(what, ts, p) ==
  CASE what = "Name" ->
         IF peek(ts, p, "Name")
         THEN OK(<<[kind |-> "Name", value |-> ts[p].value]>>, p + 1)
         ELSE Fail

    [] what = "NamedType" ->
         LET n == parseRule("Name", ts, p)
         IN IF n.ok
            THEN OK(<<[kind |-> "NamedType", name |-> n.nodes]>>, n.pos)
            ELSE Fail

    [] what = "Variable" ->
         LET n == parseRule("Name", ts, p + 1)
         IN IF peek(ts, p, "$") /\ n.ok
            THEN OK(<<[kind |-> "Variable", name |-> n.nodes]>>, n.pos)
            ELSE Fail

    [] what = "TypeReference" ->
         LET inner == parseRule("TypeReference", ts, p + 1)
             type ==
               IF peek(ts, p, "[")
               THEN IF inner.ok /\ peek(ts, inner.pos, "]")
                    THEN OK(<<[kind |-> "ListType", type |-> inner.nodes]>>,
                            inner.pos + 1)
                    ELSE Fail
               ELSE parseRule("NamedType", ts, p)
         IN IF type.ok /\ peek(ts, type.pos, "!")
            THEN OK(<<[kind |-> "NonNullType", type |-> type.nodes]>>,
                    type.pos + 1)
            ELSE type

    [] what \in {"Value", "ConstValue"} ->
         LET isConst == what = "ConstValue"
             t == ts[p]
             list == any(ts, p, "[", what, "]")
             object == any(ts, p, "{",
                           IF isConst THEN "ConstObjectField"
                           ELSE "ObjectField", "}")
         IN CASE t.kind = "[" ->
                   IF list.ok
                   THEN OK(<<[kind |-> "ListValue", values |-> list.nodes]>>,
                           list.pos)
                   ELSE Fail
              [] t.kind = "{" ->
                   IF object.ok
                   THEN OK(<<[kind |-> "ObjectValue",
                              fields |-> object.nodes]>>, object.pos)
                   ELSE Fail
              [] t.kind = "Int" ->
                   OK(<<[kind |-> "IntValue", value |-> t.value]>>, p + 1)
              [] t.kind = "Float" ->
                   OK(<<[kind |-> "FloatValue", value |-> t.value]>>, p + 1)
              [] t.kind = "String" ->
                   OK(<<[kind |-> "StringValue", value |-> t.value]>>, p + 1)
              [] t.kind = "Name" ->
                   IF t.value \in {"true", "false"}
                   THEN OK(<<[kind |-> "BooleanValue",
                              value |-> IF t.value = "true" THEN "true"
                                        ELSE "false"]>>, p + 1)
                   ELSE IF t.value = "null"
                     THEN OK(<<[kind |-> "NullValue"]>>, p + 1)
                   ELSE OK(<<[kind |-> "EnumValue", value |-> t.value]>>,
                           p + 1)
              [] t.kind = "$" ->
                   IF isConst THEN Fail ELSE parseRule("Variable", ts, p)
              [] OTHER -> Fail

    [] what \in {"ObjectField", "ConstObjectField"} ->
         LET n == parseRule("Name", ts, p)
             v == parseRule(IF what = "ObjectField" THEN "Value"
                            ELSE "ConstValue", ts, n.pos + 1)
         IN IF n.ok /\ peek(ts, n.pos, ":") /\ v.ok
            THEN OK(<<[kind |-> "ObjectField", name |-> n.nodes,
                       value |-> v.nodes]>>, v.pos)
            ELSE Fail

    [] what = "Argument" ->
         LET n == parseRule("Name", ts, p)
             v == parseRule("Value", ts, n.pos + 1)
         IN IF n.ok /\ peek(ts, n.pos, ":") /\ v.ok
            THEN OK(<<[kind |-> "Argument", name |-> n.nodes,
                       value |-> v.nodes]>>, v.pos)
            ELSE Fail

    [] what = "Arguments" ->
         IF peek(ts, p, "(") THEN many(ts, p, "(", "Argument", ")")
         ELSE OK(<<>>, p)

    [] what = "Directive" ->
         LET n == parseRule("Name", ts, p + 1)
             args == parseRule("Arguments", ts, n.pos)
         IN IF peek(ts, p, "@") /\ n.ok /\ args.ok
            THEN OK(<<[kind |-> "Directive", name |-> n.nodes,
                       arguments |-> args.nodes]>>, args.pos)
            ELSE Fail

    [] what = "Directives" -> parseWhile(ts, p, "@", "Directive", <<>>)

    [] what = "VariableDefinition" ->
         LET v == parseRule("Variable", ts, p)
             type == parseRule("TypeReference", ts, v.pos + 1)
             default == IF peek(ts, type.pos, "=")
                        THEN parseRule("ConstValue", ts, type.pos + 1)
                        ELSE OK(<<>>, type.pos)
         IN IF v.ok /\ peek(ts, v.pos, ":") /\ type.ok /\ default.ok
            THEN OK(<<[kind |-> "VariableDefinition", variable |-> v.nodes,
                       type |-> type.nodes,
                       defaultValue |-> default.nodes]>>, default.pos)
            ELSE Fail

    [] what = "VariableDefinitions" ->
         IF peek(ts, p, "(") THEN many(ts, p, "(", "VariableDefinition", ")")
         ELSE OK(<<>>, p)

    [] what = "Field" ->
         LET nameOrAlias == parseRule("Name", ts, p)
             hasAlias == peek(ts, nameOrAlias.pos, ":")
             name == IF hasAlias THEN parseRule("Name", ts, nameOrAlias.pos + 1)
                     ELSE nameOrAlias
             args == parseRule("Arguments", ts, name.pos)
             directives == parseRule("Directives", ts, args.pos)
             selectionSet == IF peek(ts, directives.pos, "{")
                             THEN parseRule("SelectionSet", ts, directives.pos)
                             ELSE OK(<<>>, directives.pos)
         IN IF nameOrAlias.ok /\ name.ok /\ args.ok /\ directives.ok
                 /\ selectionSet.ok
            THEN OK(<<[kind |-> "Field",
                       alias |-> IF hasAlias THEN nameOrAlias.nodes ELSE <<>>,
                       name |-> name.nodes,
                       arguments |-> args.nodes,
                       directives |-> directives.nodes,
                       selectionSet |-> selectionSet.nodes]>>,
                    selectionSet.pos)
            ELSE Fail

    \* "..." then a fragment name (any name but on): a spread; else an
    \* inline fragment, with a type condition if on follows.
    [] what = "Fragment" ->
         LET isSpread == peek(ts, p + 1, "Name") /\ ts[p + 1].value # "on"
             name == parseRule("Name", ts, p + 1)
             spreadDirectives == parseRule("Directives", ts, name.pos)
             typeCondition == IF peekKeyword(ts, p + 1, "on")
                              THEN parseRule("NamedType", ts, p + 2)
                              ELSE OK(<<>>, p + 1)
             directives == parseRule("Directives", ts, typeCondition.pos)
             selectionSet == parseRule("SelectionSet", ts, directives.pos)
         IN IF ~peek(ts, p, "...") THEN Fail
            ELSE IF isSpread
              THEN IF spreadDirectives.ok
                   THEN OK(<<[kind |-> "FragmentSpread", name |-> name.nodes,
                              directives |-> spreadDirectives.nodes]>>,
                           spreadDirectives.pos)
                   ELSE Fail
            ELSE IF typeCondition.ok /\ directives.ok /\ selectionSet.ok
              THEN OK(<<[kind |-> "InlineFragment",
                         typeCondition |-> typeCondition.nodes,
                         directives |-> directives.nodes,
                         selectionSet |-> selectionSet.nodes]>>,
                      selectionSet.pos)
            ELSE Fail

    [] what = "Selection" ->
         IF peek(ts, p, "...") THEN parseRule("Fragment", ts, p)
         ELSE parseRule("Field", ts, p)

    [] what = "SelectionSet" ->
         LET r == many(ts, p, "{", "Selection", "}")
         IN IF r.ok
            THEN OK(<<[kind |-> "SelectionSet", selections |-> r.nodes]>>,
                    r.pos)
            ELSE Fail

    \* A selection set alone is an anonymous query; an absent name and
    \* absent lists are the empty sequence in both forms.
    [] what = "OperationDefinition" ->
         LET shorthand == parseRule("SelectionSet", ts, p)
             name == IF peek(ts, p + 1, "Name") THEN parseRule("Name", ts, p + 1)
                     ELSE OK(<<>>, p + 1)
             varDefs == parseRule("VariableDefinitions", ts, name.pos)
             directives == parseRule("Directives", ts, varDefs.pos)
             selectionSet == parseRule("SelectionSet", ts, directives.pos)
         IN IF peek(ts, p, "{")
            THEN IF shorthand.ok
                 THEN OK(<<[kind |-> "OperationDefinition",
                            operation |-> "query",
                            name |-> <<>>, variableDefinitions |-> <<>>,
                            directives |-> <<>>,
                            selectionSet |-> shorthand.nodes]>>, shorthand.pos)
                 ELSE Fail
            ELSE IF peek(ts, p, "Name") /\ ts[p].value \in OperationTypes
                      /\ name.ok /\ varDefs.ok /\ directives.ok
                      /\ selectionSet.ok
              THEN OK(<<[kind |-> "OperationDefinition",
                         operation |-> ts[p].value,
                         name |-> name.nodes,
                         variableDefinitions |-> varDefs.nodes,
                         directives |-> directives.nodes,
                         selectionSet |-> selectionSet.nodes]>>,
                      selectionSet.pos)
            ELSE Fail

    [] what = "FragmentDefinition" ->
         LET name == parseRule("Name", ts, p + 1)
             typeCondition == parseRule("NamedType", ts, name.pos + 1)
             directives == parseRule("Directives", ts, typeCondition.pos)
             selectionSet == parseRule("SelectionSet", ts, directives.pos)
         IN IF peekKeyword(ts, p, "fragment") /\ name.ok
                 /\ name.nodes[1].value # "on"
                 /\ peekKeyword(ts, name.pos, "on")
                 /\ typeCondition.ok /\ directives.ok /\ selectionSet.ok
            THEN OK(<<[kind |-> "FragmentDefinition", name |-> name.nodes,
                       typeCondition |-> typeCondition.nodes,
                       directives |-> directives.nodes,
                       selectionSet |-> selectionSet.nodes]>>,
                    selectionSet.pos)
            ELSE Fail

    [] what = "Definition" ->
         IF peek(ts, p, "{") THEN parseRule("OperationDefinition", ts, p)
         ELSE IF peek(ts, p, "Name") /\ ts[p].value \in OperationTypes
           THEN parseRule("OperationDefinition", ts, p)
         ELSE IF peekKeyword(ts, p, "fragment")
           THEN parseRule("FragmentDefinition", ts, p)
         ELSE Fail

\* do { definitions.push(parseDefinition) } while (!skip(EOF))
RECURSIVE parseDefinitions(_, _, _)
parseDefinitions(ts, p, nodes) ==
  LET d == parseRule("Definition", ts, p)
  IN IF ~d.ok THEN Fail
     ELSE IF peek(ts, d.pos, "<EOF>") THEN OK(nodes \o d.nodes, d.pos)
     ELSE parseDefinitions(ts, d.pos, nodes \o d.nodes)

\* parse(text): ok with the Document in nodes, or not ok (a syntax error).
parse(text) ==
  LET r == parseDefinitions(Lex(text, 1), 1, <<>>)
  IN IF r.ok THEN OK(<<[kind |-> "Document", definitions |-> r.nodes]>>, r.pos)
     ELSE Fail

(***************************************************************************)
(* The plugin: getStringLiteral and the TaggedTemplateExpression visitor.  *)
(***************************************************************************)
\* The most expression slots a template of the model has.
MaxSlots == 2

\* interpolateError(): the error it throws; TypeError: what reading a
\* property of undefined throws; GraphQLError: parse's syntax error.
interpolateError ==
  "Error: only constant string literal references allowed in gql interpolation"
TypeError == "TypeError"
GraphQLError == "GraphQLError: Syntax Error"

\* A scope: scope.getBinding(name) is a binding (constant: never reassigned;
\* init: the declarator's initializer, of type undefined when there is none)
\* or, for a name the scope does not declare, undefined (the empty sequence).
Binding(constant, type, value) ==
  [constant |-> constant, init |-> [type |-> type, value |-> value]]

getBinding(scope, name) ==
  CASE name = "FIELD" -> <<Binding(TRUE, "StringLiteral", "name")>>
    [] name = "EMPTY" -> <<Binding(TRUE, "StringLiteral", "")>>
    [] name = "MORE" -> <<Binding(TRUE, "StringLiteral", "} query Q { b")>>
    [] name = "CALL" -> <<Binding(TRUE, "CallExpression", "")>>
    [] name = "PARAM" -> <<Binding(TRUE, "undefined", "")>>
    [] name = "LET" -> <<Binding(FALSE, "StringLiteral", "id")>>
    [] OTHER -> <<>>

Throw(error) == [error |-> error, value |-> ""]
Return(value) == [error |-> "", value |-> value]

\* getStringLiteral without the check of binding.constant.
getStringLiteralAnyBinding(e, scope) ==
  IF e.type # "Identifier" THEN Throw(interpolateError)
  ELSE LET binding == getBinding(scope, e.name) IN
       IF Len(binding) = 0 THEN Throw(TypeError)
       ELSE IF binding[1].init.type # "StringLiteral"
         THEN Throw(interpolateError)
       ELSE Return(binding[1].init.value)

getStringLiteral(e, scope) ==
  IF e.type # "Identifier" THEN Throw(interpolateError)
  ELSE LET binding == getBinding(scope, e.name) IN
       IF Len(binding) = 0 THEN Throw(TypeError)
       ELSE IF ~binding[1].constant THEN Throw(interpolateError)
       ELSE IF binding[1].init.type # "StringLiteral"
         THEN Throw(interpolateError)
       ELSE Return(binding[1].init.value)

\* The map with a slot that cannot be resolved left out instead of thrown on.
RECURSIVE mapGetStringLiteralBestEffort(_, _, _)
mapGetStringLiteralBestEffort(expressions, scope, values) ==
  IF Len(expressions) = 0 THEN [error |-> "", values |-> values]
  ELSE LET r == getStringLiteral(Head(expressions), scope) IN
       mapGetStringLiteralBestEffort(Tail(expressions), scope,
                                     Append(values, r.value))

\* expressions.map(e => getStringLiteral(e, scope)): in order, up to the
\* first that throws.  values: those returned before.
RECURSIVE mapGetStringLiteral(_, _, _)
mapGetStringLiteral(expressions, scope, values) ==
  IF Len(expressions) = 0 THEN [error |-> "", values |-> values]
  ELSE LET r == getStringLiteral(Head(expressions), scope) IN
       IF r.error # "" THEN [error |-> r.error, values |-> values]
       ELSE mapGetStringLiteral(Tail(expressions), scope,
                                Append(values, r.value))

\* A zip that stops at the shorter array.
zipShortest(a, b) ==
  [i \in 1..(IF Len(a) <= Len(b) THEN Len(a) ELSE Len(b)) |->
     <<Str(a[i]), Str(b[i])>>]

\* lodash zip: pairs up to the longer array, undefined where one ran out.
zip(a, b) ==
  [i \in 1..(IF Len(a) >= Len(b) THEN Len(a) ELSE Len(b)) |->
     <<IF i <= Len(a) THEN Str(a[i]) ELSE Absent,
       IF i <= Len(b) THEN Str(b[i]) ELSE Absent>>]

RECURSIVE flatten(_)
flatten(arrays) ==
  IF Len(arrays) = 0 THEN <<>> ELSE Head(arrays) \o flatten(Tail(arrays))

compact(array) == SelectSeq(array, Truthy)

RECURSIVE joinEmpty(_)
joinEmpty(array) ==
  IF Len(array) = 0 THEN ""
  ELSE (IF Head(array).t = "null" THEN "" ELSE StringOf(Head(array)))
         \o joinEmpty(Tail(array))

\* String.prototype.trim
RECURSIVE trimStart(_), trimEnd(_)
trimStart(s) ==
  IF Len(s) > 0 /\ Head(s) \in {" ", "\t", "\n", "\r"} THEN trimStart(Tail(s))
  ELSE s
trimEnd(s) ==
  IF Len(s) > 0 /\ SubSeq(s, Len(s), Len(s)) \in {" ", "\t", "\n", "\r"}
  THEN trimEnd(SubSeq(s, 1, Len(s) - 1))
  ELSE s
trim(s) == trimEnd(trimStart(s))

\* .replace(/^{/, '') and .replace(/}$/, '')
replaceLeadingBrace(s) ==
  IF Len(s) > 0 /\ Head(s) = "{" THEN Tail(s) ELSE s
\* .replace(/}/, ''): the first closing brace, wherever it is.
RECURSIVE replaceFirstClosingBrace(_)
replaceFirstClosingBrace(s) ==
  IF Len(s) = 0 THEN s
  ELSE IF Head(s) = "}" THEN Tail(s)
  ELSE Head(s) \o replaceFirstClosingBrace(Tail(s))

replaceTrailingBrace(s) ==
  IF Len(s) > 0 /\ SubSeq(s, Len(s), Len(s)) = "}"
  THEN SubSeq(s, 1, Len(s) - 1)
  ELSE s

isGqlString(path) == path.tag = "gql"

VARIABLES
  pc,        \* "visit": the handler has not run on the template; "done"
  template,  \* the tagged template: tag, quasis (raw chunks), expressions
  node,      \* what stands in the program where the template was
  values,    \* what getStringLiteral returned, slot by slot
  query,     \* the reconstructed text
  source,    \* the text handed to parse
  ast,       \* the tree parse returned (a sequence of length <= 1)
  out,       \* what print returned (a sequence of length <= 1)
  thrown,    \* the error thrown, "" if none
  text,      \* a query text, for the printer taken alone
  ast2,      \* the tree of the printed text
  out2       \* the printed text's tree printed again

vars == <<pc, template, node, values, query, source, ast, out, thrown,
          text, ast2, out2>>

TemplateNode == [type |-> "TaggedTemplateExpression", value |-> ""]
stringLiteral(value) == [type |-> "StringLiteral", value |-> value]

\* The raw chunks and the slot expressions templates are made of.
Chunks == {"", "a ", "b{ c", " }"}
Expressions ==
  {[type |-> "Identifier", name |-> n] :
     n \in {"FIELD", "EMPTY", "MORE", "CALL", "PARAM", "LET", "undeclared"}}
    \cup {[type |-> "MemberExpression", name |-> "FIELD"]}

\* A template with n slots has n + 1 chunks.  Templates of other tags
\* than gql stand in the program too.
Init ==
  /\ pc = "visit"
  /\ \E n \in 0..MaxSlots :
       \E quasis \in [1..(n + 1) -> Chunks] :
         \E expressions \in [1..n -> Expressions] :
           \E tag \in IF n = 1 THEN {"gql", "css"} ELSE {"gql"} :
             template = [tag |-> tag, quasis |-> quasis,
                         expressions |-> expressions]
  /\ node = TemplateNode
  /\ values = <<>>
  /\ query = ""
  /\ source = ""
  /\ ast = <<>>
  /\ out = <<>>
  /\ thrown = ""
  /\ text = ""
  /\ ast2 = <<>>
  /\ out2 = <<>>

\* visitor.TaggedTemplateExpression(template), to its return or its throw.
TaggedTemplateExpression ==
  /\ pc = "visit"
  /\ pc' = "done"
  /\ UNCHANGED <<template, text, ast2, out2>>
  /\ IF ~isGqlString(template)
     THEN UNCHANGED <<node, values, query, source, ast, out, thrown>>
     ELSE
       LET quasis == template.quasis
           resolved == mapGetStringLiteral(template.expressions, "scope", <<>>)
           q == joinEmpty(compact(flatten(zip(quasis, resolved.values))))
           src == "{" \o q \o "}"
           tree == parse(src)
           printed == print(tree.nodes[1])
           minified ==
             replaceTrailingBrace(replaceLeadingBrace(trim(printed.s)))
       IN /\ values' = resolved.values
          /\ IF resolved.error # ""
             THEN /\ thrown' = resolved.error
                  /\ UNCHANGED <<node, query, source, ast, out>>
             ELSE /\ query' = q
                  /\ source' = src
                  /\ IF ~tree.ok
                     THEN /\ thrown' = GraphQLError
                          /\ UNCHANGED <<node, ast, out>>
                     ELSE /\ ast' = tree.nodes
                          /\ out' = <<printed>>
                          /\ IF printed.t # "string"
                             THEN /\ thrown' = TypeError
                                  /\ UNCHANGED node
                             ELSE /\ thrown' = ""
                                  /\ node' = stringLiteral(minified)

Next == TaggedTemplateExpression

Spec == Init /\ [][Next]_vars

(***************************************************************************)
(* The resolver and the handler: what the code is checked against.         *)
(***************************************************************************)
Done == pc = "done" /\ isGqlString(template)

\* A slot that names a constant binding initialised with a string literal.
Declared(e) == Len(getBinding("scope", e.name)) > 0
Resolvable(e) ==
  /\ e.type = "Identifier"
  /\ Declared(e)
  /\ getBinding("scope", e.name)[1].constant
  /\ getBinding("scope", e.name)[1].init.type = "StringLiteral"
Literal(e) == getBinding("scope", e.name)[1].init.value
AllResolvable == \A i \in 1..Len(template.expressions) :
                   Resolvable(template.expressions[i])

\* chunks[1] + slots[1] + chunks[2] + ... + chunks[N + 1]
RECURSIVE Interleave(_, _)
Interleave(chunks, slots) ==
  IF Len(slots) = 0 THEN chunks[1]
  ELSE chunks[1] \o Literal(slots[1]) \o Interleave(Tail(chunks), Tail(slots))

Reconstructed == Interleave(template.quasis, template.expressions)

\* C1: when every slot resolves, the reconstructed text is the chunks and
\* the slots' values interleaved in order, nothing dropped or added, empty
\* chunks and empty values included.
C1_InterleavedConcatenation ==
  (Done /\ AllResolvable) => query = Reconstructed

C1_Witness ==
  /\ Done /\ AllResolvable
  /\ Len(template.expressions) = 2
  /\ template.expressions[1].name = "EMPTY"
  /\ template.quasis[2] = ""
  /\ template.quasis[3] # ""
  /\ query # ""

\* C2: a slot resolves to its initializer's string exactly when it is a
\* bare identifier whose binding is constant and initialised with a string
\* literal; a slot that is no identifier, or whose binding is not constant
\* or not so initialised, fails with the interpolation error.
C2_ResolveSlot ==
  Done =>
    LET es == template.expressions
        n == Len(values)
    IN /\ n <= Len(es)
       /\ \A i \in 1..n : Resolvable(es[i]) /\ values[i] = Literal(es[i])
       /\ n < Len(es) =>
            /\ ~Resolvable(es[n + 1])
            /\ thrown # ""
            /\ (es[n + 1].type # "Identifier" \/ Declared(es[n + 1]))
                 => thrown = interpolateError

C2_Witness ==
  /\ Done
  /\ Len(template.expressions) = 2
  /\ Len(values) = 1
  /\ template.expressions[2].name = "LET"
  /\ thrown = interpolateError

\* C3: a slot naming an identifier the scope does not declare fails with
\* the interpolation error.
C3_UndeclaredIsInterpolationError ==
  (Done /\ Len(values) < Len(template.expressions)
        /\ template.expressions[Len(values) + 1].type = "Identifier"
        /\ ~Declared(template.expressions[Len(values) + 1]))
    => thrown = interpolateError

\* C4: when some slot cannot be resolved, or the reconstructed text in
\* braces does not parse, the template stays as it was and an error is
\* thrown: nothing is substituted.
C4_AllOrNothing ==
  (Done /\ (~AllResolvable \/ ~parse("{" \o Reconstructed \o "}").ok))
    => node = TemplateNode /\ thrown # ""

C4_Witness ==
  /\ Done
  /\ Len(template.expressions) = 2
  /\ Resolvable(template.expressions[1])
  /\ ~Resolvable(template.expressions[2])
  /\ parse("{" \o template.quasis[1] \o Literal(template.expressions[1])
             \o template.quasis[2] \o template.quasis[3] \o "}").ok
  /\ node = TemplateNode

\* C5: when the reconstructed text q in braces parses, parse is given
\* "{" + q + "}", and the string r put in the template's place is the
\* printed text without its closing newline and without the one leading
\* and the one trailing brace: printed = "{" + r + "}" + newline.
C5_OuterBraces ==
  (Done /\ AllResolvable /\ parse("{" \o Reconstructed \o "}").ok) =>
    /\ source = "{" \o Reconstructed \o "}"
    /\ node.type = "StringLiteral"
    /\ Len(out) = 1
    /\ out[1].s = "{" \o node.value \o "}" \o "\n"

C5_Witness ==
  /\ Done
  /\ node.type = "StringLiteral"
  /\ Len(ast) = 1
  /\ Len(ast[1].definitions) = 2
  /\ thrown = ""

(***************************************************************************)
(* The printer taken alone: print on a tree (module.exports = print of the *)
(* printer-only file), and parse and print composed on a query text.       *)
(***************************************************************************)
\* The most items in a list of a tree, and the most sibling selections in a
\* query text, of the model.
MaxItems == 2
MaxSelections == 2

NameNode(value) == [kind |-> "Name", value |-> value]
NamedTypeNode(name) == [kind |-> "NamedType", name |-> <<NameNode(name)>>]
IntNode(value) == [kind |-> "IntValue", value |-> value]
FieldNode(alias, name, arguments, directives, selectionSet) ==
  [kind |-> "Field", alias |-> alias, name |-> <<NameNode(name)>>,
   arguments |-> arguments, directives |-> directives,
   selectionSet |-> selectionSet]
SelectionSetNode(selections) ==
  [kind |-> "SelectionSet", selections |-> selections]
ArgumentNode(name, value) ==
  [kind |-> "Argument", name |-> <<NameNode(name)>>, value |-> <<value>>]
DirectiveNode(name, arguments) ==
  [kind |-> "Directive", name |-> <<NameNode(name)>>,
   arguments |-> arguments]
VariableNode(name) == [kind |-> "Variable", name |-> <<NameNode(name)>>]
VariableDefinitionNode(name, type, defaultValue) ==
  [kind |-> "VariableDefinition", variable |-> <<VariableNode(name)>>,
   type |-> <<type>>, defaultValue |-> defaultValue]
OperationNode(operation, name, variableDefinitions, directives, selectionSet) ==
  [kind |-> "OperationDefinition", operation |-> operation, name |-> name,
   variableDefinitions |-> variableDefinitions, directives |-> directives,
   selectionSet |-> <<selectionSet>>]
DocumentNode(definitions) ==
  [kind |-> "Document", definitions |-> definitions]

\* Sequences of at most n items of a set.
UpTo(S, n) == UNION {[1..k -> S] : k \in 0..n}

Leaf(name) == FieldNode(<<>>, name, <<>>, <<>>, <<>>)

DirectivePool ==
  {DirectiveNode("d", <<>>),
   DirectiveNode("skip", <<ArgumentNode("if", VariableNode("v"))>>)}

VariableDefinitionPool ==
  {VariableDefinitionNode("v", NamedTypeNode("Int"), <<>>),
   VariableDefinitionNode(
     "w",
     [kind |-> "NonNullType",
      type |-> <<[kind |-> "ListType", type |-> <<NamedTypeNode("S")>>]>>],
     <<[kind |-> "ListValue", values |-> <<IntNode("1")>>]>>)}

SelectionSetPool ==
  {SelectionSetNode(<<>>),
   SelectionSetNode(<<Leaf("a")>>),
   SelectionSetNode(
     <<FieldNode(<<NameNode("x")>>, "a",
                 <<ArgumentNode("k", IntNode("1"))>>,
                 <<DirectiveNode("d", <<>>)>>,
                 <<SelectionSetNode(<<Leaf("b"), Leaf("c")>>)>>),
       [kind |-> "FragmentSpread", name |-> <<NameNode("F")>>,
        directives |-> <<>>]>>)}

OperationTrees ==
  {OperationNode(op, name, varDefs, directives, selectionSet) :
     op \in OperationTypes,
     name \in {<<>>, <<NameNode("Q")>>},
     varDefs \in UpTo(VariableDefinitionPool, MaxItems),
     directives \in UpTo(DirectivePool, MaxItems),
     selectionSet \in SelectionSetPool}

\* Nodes of the other kinds, with their optional fields and lists absent or
\* empty, and filled.
KindTrees ==
  {NameNode("a"), VariableNode("v"), DocumentNode(<<>>),
   DocumentNode(<<OperationNode("query", <<>>, <<>>, <<>>,
                                SelectionSetNode(<<Leaf("a")>>))>>),
   VariableDefinitionNode("v", NamedTypeNode("Int"), <<IntNode("1")>>),
   Leaf("a"),
   FieldNode(<<>>, "a", <<>>, <<>>, <<SelectionSetNode(<<>>)>>),
   ArgumentNode("k", [kind |-> "StringValue", value |-> "s \"t\""]),
   [kind |-> "FragmentSpread", name |-> <<NameNode("F")>>,
    directives |-> <<DirectiveNode("d", <<>>)>>],
   [kind |-> "InlineFragment", typeCondition |-> <<>>, directives |-> <<>>,
    selectionSet |-> <<SelectionSetNode(<<Leaf("a")>>)>>],
   [kind |-> "InlineFragment", typeCondition |-> <<NamedTypeNode("T")>>,
    directives |-> <<DirectiveNode("d", <<>>)>>,
    selectionSet |-> <<SelectionSetNode(<<Leaf("a")>>)>>],
   [kind |-> "FragmentDefinition", name |-> <<NameNode("F")>>,
    typeCondition |-> <<NamedTypeNode("T")>>, directives |-> <<>>,
    selectionSet |-> <<SelectionSetNode(<<Leaf("a")>>)>>],
   IntNode("0"), [kind |-> "FloatValue", value |-> "1.5"],
   [kind |-> "StringValue", value |-> ""],
   [kind |-> "BooleanValue", value |-> "false"], [kind |-> "NullValue"],
   [kind |-> "EnumValue", value |-> "E"],
   [kind |-> "ListValue", values |-> <<>>],
   [kind |-> "ObjectValue", fields |-> <<>>],
   [kind |-> "ObjectValue",
    fields |-> <<[kind |-> "ObjectField", name |-> <<NameNode("k")>>,
                  value |-> <<IntNode("1")>>]>>],
   DirectiveNode("d", <<>>), NamedTypeNode("T"),
   [kind |-> "ListType", type |-> <<NamedTypeNode("T")>>],
   [kind |-> "NonNullType", type |-> <<NamedTypeNode("T")>>],
   [kind |-> "SchemaDefinition", directives |-> <<>>,
    operationTypes |-> <<>>],
   [kind |-> "SchemaDefinition", directives |-> <<DirectiveNode("d", <<>>)>>,
    operationTypes |->
      <<[kind |-> "OperationTypeDefinition", operation |-> "query",
         type |-> <<NamedTypeNode("Q")>>]>>],
   [kind |-> "ScalarTypeDefinition", name |-> <<NameNode("S")>>,
    directives |-> <<>>],
   [kind |-> "ObjectTypeDefinition", name |-> <<NameNode("T")>>,
    interfaces |-> <<>>, directives |-> <<>>, fields |-> <<>>],
   [kind |-> "ObjectTypeDefinition", name |-> <<NameNode("T")>>,
    interfaces |-> <<NamedTypeNode("I"), NamedTypeNode("J")>>,
    directives |-> <<DirectiveNode("d", <<>>)>>,
    fields |->
      <<[kind |-> "FieldDefinition", name |-> <<NameNode("f")>>,
         arguments |->
           <<[kind |-> "InputValueDefinition", name |-> <<NameNode("k")>>,
              type |-> <<NamedTypeNode("Int")>>,
              defaultValue |-> <<IntNode("1")>>, directives |-> <<>>]>>,
         type |-> <<NamedTypeNode("Int")>>, directives |-> <<>>]>>],
   [kind |-> "InputValueDefinition", name |-> <<NameNode("k")>>,
    type |-> <<NamedTypeNode("Int")>>, defaultValue |-> <<>>,
    directives |-> <<>>],
   [kind |-> "InterfaceTypeDefinition", name |-> <<NameNode("I")>>,
    directives |-> <<>>, fields |-> <<>>],
   [kind |-> "UnionTypeDefinition", name |-> <<NameNode("U")>>,
    directives |-> <<>>,
    types |-> <<NamedTypeNode("A"), NamedTypeNode("B")>>],
   [kind |-> "EnumTypeDefinition", name |-> <<NameNode("E")>>,
    directives |-> <<>>,
    values |-> <<[kind |-> "EnumValueDefinition", name |-> <<NameNode("A")>>,
                  directives |-> <<>>]>>],
   [kind |-> "InputObjectTypeDefinition", name |-> <<NameNode("I")>>,
    directives |-> <<>>, fields |-> <<>>],
   [kind |-> "TypeExtensionDefinition",
    definition |->
      <<[kind |-> "ObjectTypeDefinition", name |-> <<NameNode("T")>>,
         interfaces |-> <<>>, directives |-> <<>>, fields |-> <<>>]>>],
   [kind |-> "DirectiveDefinition", name |-> <<NameNode("d")>>,
    arguments |-> <<>>, locations |-> <<NameNode("FIELD")>>]}

\* Trees with a node of a kind printDocASTReducer has no rule for: at the
\* root, as a definition, as a selection, as a value.
UnruledNode == [kind |-> "ObjectTypeExtension", name |-> <<NameNode("T")>>]

UnruledTrees ==
  {UnruledNode,
   DocumentNode(<<UnruledNode>>),
   DocumentNode(<<OperationNode("query", <<>>, <<>>, <<>>,
                                SelectionSetNode(<<Leaf("a")>>)),
                  UnruledNode>>),
   SelectionSetNode(<<Leaf("a"), [kind |-> "Comment", value |-> "c"]>>),
   ArgumentNode("k", [kind |-> "BlockStringValue", value |-> "s"])}

PrintTrees == OperationTrees \cup KindTrees \cup UnruledTrees

InitPrint ==
  /\ pc = "parsed"
  /\ ast \in {<<tree>> : tree \in PrintTrees}
  /\ template = [tag |-> "", quasis |-> <<>>, expressions |-> <<>>]
  /\ node = TemplateNode
  /\ values = <<>>
  /\ query = ""
  /\ source = ""
  /\ out = <<>>
  /\ thrown = ""
  /\ text = ""
  /\ ast2 = <<>>
  /\ out2 = <<>>

\* out = print(ast)
PrintAst ==
  /\ pc = "parsed"
  /\ out' = <<print(ast[1])>>
  /\ pc' = "printed"
  /\ UNCHANGED <<template, node, values, query, source, ast, thrown, text,
                 ast2, out2>>

NextPrint == PrintAst

SpecPrint == InitPrint /\ [][NextPrint]_vars

RECURSIVE HasUnruledKind(_)
HasUnruledKind(tree) ==
  \/ tree.kind \notin RuleKinds
  \/ \E k \in ChildKeys(tree) : \E i \in 1..Len(tree[k]) :
       HasUnruledKind(tree[k][i])

\* The non-empty strings of a sequence, with sep between them.
RECURSIVE Separated(_, _)
Separated(strings, sep) ==
  IF Len(strings) = 0 THEN ""
  ELSE LET rest == Separated(Tail(strings), sep) IN
       IF Head(strings) = "" THEN rest
       ELSE IF rest = "" THEN Head(strings)
       ELSE Head(strings) \o sep \o rest

Printed(trees) == [i \in 1..Len(trees) |-> print(trees[i]).s]

\* C6: an operation prints as its selection set alone exactly when it is a
\* query with no name, no directives and no variable definitions; in every
\* other case as the operation keyword, the name directly followed by the
\* variable definitions, the directives and the selection set, the
\* non-empty ones of these joined by single spaces.
C6_OperationShorthand ==
  (pc = "printed" /\ ast[1].kind = "OperationDefinition") =>
    LET n == ast[1]
        shorthand == /\ n.operation = "query"
                     /\ Len(n.name) = 0
                     /\ Len(n.directives) = 0
                     /\ Len(n.variableDefinitions) = 0
        selectionSet == print(n.selectionSet[1]).s
        name == IF Len(n.name) = 0 THEN "" ELSE n.name[1].value
        varDefs == IF Len(n.variableDefinitions) = 0 THEN ""
                   ELSE "(" \o Separated(Printed(n.variableDefinitions), ",")
                          \o ")"
        directives == Separated(Printed(n.directives), " ")
        full == Separated(<<n.operation, name \o varDefs, directives,
                            selectionSet>>, " ")
    IN /\ shorthand => out[1].s = selectionSet
       /\ ~shorthand =>
            /\ out[1].s = full
            /\ SubSeq(out[1].s, 1, Len(n.operation)) = n.operation
            /\ out[1].s # selectionSet

C6_Witness ==
  /\ pc = "printed"
  /\ ast[1].kind = "OperationDefinition"
  /\ ast[1].operation = "mutation"
  /\ Len(ast[1].name) = 0
  /\ Len(ast[1].directives) = 0
  /\ Len(ast[1].variableDefinitions) = 0
  /\ out[1].s = "mutation {a}"

\* C8: printing a tree with a node of a kind that has no rule raises an
\* error, and returns nothing.
C8_UnruledKindRaises ==
  (pc = "printed" /\ HasUnruledKind(ast[1])) => (thrown # "" /\ Len(out) = 0)

\* C9: a node of a supported kind prints as a non-empty string, whatever
\* optional fields and lists are absent or empty; a selection set as its
\* selections joined by commas, in braces.
C9_NonEmptyString ==
  (pc = "printed" /\ ~HasUnruledKind(ast[1])) =>
    /\ out[1].t = "string"
    /\ out[1].s # ""
    /\ ast[1].kind = "SelectionSet" =>
         out[1].s = "{" \o Separated(Printed(ast[1].selections), ",") \o "}"

(***************************************************************************)
(* Query texts: selections, selection sets, operations and fragment        *)
(* definitions, written with spaces, commas and line breaks.               *)
(***************************************************************************)
Aliases == {"", "x: ", "x :"}
FieldNames == {"a", "on"}
ArgumentTexts ==
  {"", "(k: 1)", " ( k : $v , l : \"s t\" ) ",
   "(k: [1, -2.5e3] l: {m: E, n: null, o: true})",
   "(k: \"q\\\"\\\\ \\n\", l: [], m: {})"}
DirectiveTexts == {"", " @d", "@d(k: 1) @e", " @skip(if: $v)"}
SubSelectionTexts == {"", " { b }", "{b,c}", " { ...F }"}

FieldTexts ==
  {alias \o name \o arguments \o directives \o selectionSet :
     alias \in Aliases, name \in FieldNames, arguments \in ArgumentTexts,
     directives \in DirectiveTexts, selectionSet \in SubSelectionTexts}

FragmentTexts ==
  {"...F", "... F @d", "...F@d(k: 1) @e", "...onT", "... on T { a }",
   "...on T@d{a}", "... on T @d(k: 1) @e { a }", "... { a }", "...{a}",
   "... @d { a }", "...@d@e{a}"}

SelectionPool ==
  {"a", "x: a", "a(k: 1)", "a @d", "a { b }", "...F", "... on T { a }",
   "... @d { a }"}
Separators == {" ", ",", "\n  "}

RECURSIVE Siblings(_)
Siblings(n) ==
  IF n = 1 THEN SelectionPool
  ELSE {s \o sep \o t :
          s \in Siblings(n - 1), sep \in Separators, t \in SelectionPool}

SelectionTexts ==
  FieldTexts \cup FragmentTexts \cup UNION {Siblings(n) : n \in 1..MaxSelections}

SelectionSetTexts ==
  {"{ " \o s \o " }" : s \in SelectionTexts}
    \cup {"{ a { b c } }", "{a{b,c}}", "{\n  a {\n    b\n    c\n  }\n}\n",
          "{ a { b { c } d } e }", "{a,,b}", "# c\n{ a # b }\n b }"}

OperationHeaders ==
  {"query ", "query Q ", "mutation ", "subscription S", "query Q($v: Int) ",
   "query ($v: [Int!]! = [1], $w: S = \"d\") @d ", "mutation M @d @e(k: 1) ",
   "query @d", "query Q($v:Int,$w:[[S]!]={k:1.5})@d"}
DefinitionPool ==
  {"{ a }", "{a}", "query Q { a }", "mutation { a }",
   "fragment F on T { a }", "fragment on1 on on @d @e(k: 1) { a ...G }"}

DefinitionTexts ==
  SelectionSetTexts
    \cup {header \o selectionSet :
            header \in OperationHeaders,
            selectionSet \in {"{ a }", "{a}", "{ x: a(k: 1) @d { b } ...F }"}}
    \cup DefinitionPool
    \cup {d \o sep \o e :
            d \in DefinitionPool, sep \in Separators, e \in DefinitionPool}

\* Texts parse rejects.
InvalidTexts ==
  {"", "{", "{ a", "{}", "query", "{ ...on }", "{ a: }", "{ a(k: 01) }",
   "{ a(k: \"s) }", "query ($v: Int = $w) { a }", "fragment on on T { a }",
   "{ a } }", "{ a ? }", "{ a .. }"}

Texts == DefinitionTexts \cup InvalidTexts

InitRoundTrip ==
  /\ pc = "text"
  /\ text \in Texts
  /\ template = [tag |-> "", quasis |-> <<>>, expressions |-> <<>>]
  /\ node = TemplateNode
  /\ values = <<>>
  /\ query = ""
  /\ source = ""
  /\ ast = <<>>
  /\ out = <<>>
  /\ thrown = ""
  /\ ast2 = <<>>
  /\ out2 = <<>>

\* ast = parse(text)
ParseText ==
  /\ pc = "text"
  /\ LET tree == parse(text)
     IN IF tree.ok
        THEN ast' = tree.nodes /\ pc' = "parsed" /\ UNCHANGED thrown
        ELSE thrown' = GraphQLError /\ pc' = "invalid" /\ UNCHANGED ast
  /\ UNCHANGED <<template, node, values, query, source, out, text, ast2,
                 out2>>

\* ast2 = parse(out)
ParsePrinted ==
  /\ pc = "printed"
  /\ LET tree == parse(out[1].s)
     IN IF tree.ok
        THEN ast2' = tree.nodes /\ pc' = "reparsed" /\ UNCHANGED thrown
        ELSE thrown' = GraphQLError /\ pc' = "unparsable" /\ UNCHANGED ast2
  /\ UNCHANGED <<template, node, values, query, source, ast, out, text,
                 out2>>

\* out2 = print(ast2)
PrintAgain ==
  /\ pc = "reparsed"
  /\ out2' = <<print(ast2[1])>>
  /\ pc' = "reprinted"
  /\ UNCHANGED <<template, node, values, query, source, ast, out, thrown,
                 text, ast2>>

NextRoundTrip ==
  \/ ParseText
  \/ PrintAst
  \/ ParsePrinted
  \/ PrintAgain

SpecRoundTrip == InitRoundTrip /\ [][NextRoundTrip]_vars

\* A text of names and braces alone that is one selection set.
TokenKinds(s) == {Lex(s, 1)[i].kind : i \in 1..Len(Lex(s, 1))}
RECURSIVE ClosesAtEnd(_, _, _)
ClosesAtEnd(ts, i, depth) ==
  IF ts[i].kind = "<EOF>" THEN depth = 0
  ELSE IF ts[i].kind = "<Error>" THEN FALSE
  ELSE IF ts[i].kind = "{" THEN ClosesAtEnd(ts, i + 1, depth + 1)
  ELSE IF ts[i].kind = "}"
    THEN (depth > 1 \/ ts[i + 1].kind = "<EOF>")
           /\ ClosesAtEnd(ts, i + 1, depth - 1)
  ELSE ClosesAtEnd(ts, i + 1, depth)
IsPlain(s) ==
  /\ TokenKinds(s) \subseteq {"{", "}", "Name", "<EOF>"}
  /\ Lex(s, 1)[1].kind = "{"
  /\ ClosesAtEnd(Lex(s, 1), 1, 0)

\* The tokens of a plain text put together, with a comma before a name
\* that follows a name or a closing brace.
RECURSIVE Minimal(_, _)
Minimal(ts, i) ==
  IF ts[i].kind \in {"<EOF>", "<Error>"} THEN ""
  ELSE (IF i > 1 /\ ts[i].kind = "Name" /\ ts[i - 1].kind \in {"Name", "}"}
        THEN "," ELSE "")
         \o (IF ts[i].kind = "Name" THEN ts[i].value ELSE ts[i].kind)
         \o Minimal(ts, i + 1)

WhiteSpace == {" ", "\t", "\n", "\r"}
NoWhiteSpace(s) == \A i \in 1..Len(s) : SubSeq(s, i, i) \notin WhiteSpace

\* C7 as stated: for a text of fields and nested selection sets alone what
\* print returns has no whitespace anywhere, and for "{ a { b c } }" it is
\* "{a{b,c}}".
C7_NoWhiteSpaceAnywhere ==
  (pc = "printed" /\ IsPlain(text)) =>
    /\ NoWhiteSpace(out[1].s)
    /\ text = "{ a { b c } }" => out[1].s = "{a{b,c}}"

\* C7 amended: for a text that is one selection set of fields and nested
\* selection sets alone, what print returns is the names and braces with
\* one comma between sibling selections and no whitespace, followed by the
\* one line break the Document rule appends; "{a{b,c}}" and a line break
\* for "{ a { b c } }".
C7_MinimalThenNewline ==
  (pc = "printed" /\ IsPlain(text)) =>
    /\ out[1].s = Minimal(Lex(text, 1), 1) \o "\n"
    /\ NoWhiteSpace(SubSeq(out[1].s, 1, Len(out[1].s) - 1))
    /\ text = "{ a { b c } }" => out[1].s = "{a{b,c}}" \o "\n"

C7_Witness ==
  /\ pc = "printed"
  /\ text = "{ a { b { c } d } e }"
  /\ out[1].s = "{a{b{c},d},e}" \o "\n"

=============================================================================
